---- MODULE Spec2Model ----
(***************************************************************************)
(* A model of the Advent-of-Code bootstrapper (main.py, setup.py).         *)
(*                                                                         *)
(* Text is a sequence of atoms.  An atom is a one-character string, or a   *)
(* literal fragment of a template that holds no line break; the text is    *)
(* the concatenation of its atoms.  Only one-character atoms are ever      *)
(* stripped, split or compared for whitespace.  Python's None is the       *)
(* one-atom sequence None, which no text of the model equals.              *)
(***************************************************************************)
EXTENDS Integers, Sequences, FiniteSets, TLC

VARIABLES
    cwd,              \* the working directory the tool was started in (a path)
    entry,            \* how the tool was started: "script" or "console"
    args,             \* the argparse Namespace of the run
    dotenv,           \* the file at DOTENV_PATH
    loaded_env,       \* main_logic's env_vars, the mapping load_dotenv returned
    pc,               \* position of the run in main_logic
    session_cookie,   \* main_logic's session_cookie
    day_project_dir,  \* main_logic's day_project_dir (a path)
    dirs,             \* the directories that exist under the day directory
    files,            \* the files under the day directory: name -> content
    http_log,         \* the GET requests sent, in order
    toolchain_log,    \* the external commands run, in order
    out,              \* the messages printed, in order
    lang_idx,         \* position of the scaffolding loop in langs_to_scaffold
    instr_calls,      \* the calls of fetch_and_save_instructions, in order
    scaffold_calls,   \* the calls of the scaffolders, in order
    faults,           \* the environment failures the run has survived
    interrupted,      \* a KeyboardInterrupt was raised
    exit_code         \* the process's exit status once pc = "exited"

vars == <<cwd, entry, args, dotenv, loaded_env, pc, session_cookie, day_project_dir,
          dirs, files, http_log, toolchain_log, out, lang_idx, instr_calls,
          scaffold_calls, faults, interrupted, exit_code>>

(***************************************************************************)
(* Bounds.                                                                 *)
(***************************************************************************)
MaxFaults == 1
MaxCalls == 3

(***************************************************************************)
(* Constants of the program.                                               *)
(***************************************************************************)
LANGUAGES == <<"rust", "go", "python">>
AOC_BASE_URL == "https://adventofcode.com"
AOC_SESSION == <<"A", "O", "C", "_", "S", "E", "S", "S", "I", "O", "N">>

None == <<"None">>
NotExited == -1
KilledBySigint == -2

(***************************************************************************)
(* Python's str operations, on sequences of atoms.                         *)
(***************************************************************************)
IsSpace(c) == c \in {" ", "\t", "\n", "\r"}

RECURSIVE lstrip(_)
lstrip(s) == IF s # <<>> /\ IsSpace(Head(s)) THEN lstrip(Tail(s)) ELSE s

RECURSIVE rstrip(_)
rstrip(s) ==
    IF s # <<>> /\ IsSpace(s[Len(s)]) THEN rstrip(SubSeq(s, 1, Len(s) - 1)) ELSE s

strip(s) == rstrip(lstrip(s))

startswith(s, c) == s # <<>> /\ s[1] = c
endswith(s, c) == s # <<>> /\ s[Len(s)] = c
Contains(s, c) == \E i \in 1..Len(s) : s[i] = c
IndexOf(s, c) == CHOOSE i \in 1..Len(s) : s[i] = c /\ \A j \in 1..(i - 1) : s[j] # c

RECURSIVE Range(_)
Range(s) == IF s = <<>> THEN {} ELSE {Head(s)} \cup Range(Tail(s))

Digit(n) == <<"0", "1", "2", "3", "4", "5", "6", "7", "8", "9">>[n + 1]

\* str(n) for n >= 0
RECURSIVE str(_)
str(n) == IF n < 10 THEN <<Digit(n)>> ELSE str(n \div 10) \o <<Digit(n % 10)>>

RECURSIVE zfill(_, _)
zfill(s, width) == IF Len(s) >= width THEN s ELSE zfill(<<"0">> \o s, width)

empty_is_truthy(s) == s # None

\* Python's truth value of an Optional[str]
Truthy(s) == s # None /\ s # <<>>

(***************************************************************************)
(* load_dotenv.  A file is [exists, lines, oserror, nread]: with oserror   *)
(* the read raises OSError after nread lines were delivered (0: at open).  *)
(* The mapping is a function from keys to values.                          *)
(***************************************************************************)
EmptyDict == [k \in {} |-> <<>>]

unquote(value) ==
    IF (startswith(value, "'") /\ endswith(value, "'"))
       \/ (startswith(value, "\"") /\ endswith(value, "\""))
    THEN SubSeq(value, 2, Len(value) - 1)
    ELSE value

dotenv_line(env_vars, raw) ==
    LET line == strip(raw) IN
    IF line = <<>> \/ startswith(line, "#") \/ ~Contains(line, "=")
    THEN env_vars
    ELSE LET i == IndexOf(line, "=")
             key == strip(SubSeq(line, 1, i - 1))
             value == unquote(strip(SubSeq(line, i + 1, Len(line))))
         IN  (key :> value) @@ env_vars

RECURSIVE dotenv_lines(_, _)
dotenv_lines(env_vars, lines) ==
    IF lines = <<>> THEN env_vars
    ELSE dotenv_lines(dotenv_line(env_vars, Head(lines)), Tail(lines))

load_dotenv(file) ==
    IF ~file.exists THEN EmptyDict
    ELSE IF file.oserror THEN dotenv_lines(EmptyDict, SubSeq(file.lines, 1, file.nread))
    ELSE dotenv_lines(EmptyDict, file.lines)

dict_get(d, k) == IF k \in DOMAIN d THEN d[k] ELSE None

(***************************************************************************)
(* Credential resolution of main_logic.                                    *)
(***************************************************************************)
file_first(session, env_vars) ==
    IF Truthy(dict_get(env_vars, AOC_SESSION))
    THEN dict_get(env_vars, AOC_SESSION) ELSE session

resolve_session(session, env_vars) ==
    IF Truthy(session) THEN session ELSE dict_get(env_vars, AOC_SESSION)

(***************************************************************************)
(* Paths are sequences of parts, each part a text.                         *)
(***************************************************************************)
target_dir(year, day_str_padded, base_path) ==
    IF year \in Range(base_path)
    THEN base_path \o <<day_str_padded>>
    ELSE base_path \o <<year, day_str_padded>>

\* create_day_folder: mkdir(parents=True, exist_ok=True) either succeeds or
\* raises OSError, which ends the process with status 1.
create_day_folder(year, day_str_padded, base_path, verbose, mkdir_ok) ==
    LET target == target_dir(year, day_str_padded, base_path) IN
    IF mkdir_ok
    THEN [path |-> target, made |-> TRUE, exit |-> NotExited,
          out |-> <<IF verbose THEN "Ensured directory exists" ELSE "Using directory">>]
    ELSE [path |-> target, made |-> FALSE, exit |-> 1,
          out |-> <<"Error: Could not create directory">>]

(***************************************************************************)
(* Files.  write_text opens the file for writing, which truncates it, and  *)
(* then writes: "ok", "open_fails" (OSError, file untouched) or            *)
(* "write_fails" (OSError after the truncation).  Text files are written   *)
(* with "\n" translated to os.linesep and read with universal newlines.    *)
(***************************************************************************)
WriteOutcomes == {"ok", "open_fails", "write_fails"}

os_linesep == <<"\n">>

RECURSIVE encode_newlines(_)
encode_newlines(text) ==
    IF text = <<>> THEN <<>>
    ELSE (IF Head(text) = "\n" THEN os_linesep ELSE <<Head(text)>>)
         \o encode_newlines(Tail(text))

RECURSIVE decode_newlines(_)
decode_newlines(data) ==
    IF data = <<>> THEN <<>>
    ELSE IF Head(data) = "\r"
    THEN IF Len(data) >= 2 /\ data[2] = "\n"
         THEN <<"\n">> \o decode_newlines(SubSeq(data, 3, Len(data)))
         ELSE <<"\n">> \o decode_newlines(Tail(data))
    ELSE <<Head(data)>> \o decode_newlines(Tail(data))

write_text(fs, name, text, how) ==
    CASE how = "ok" -> (name :> encode_newlines(text)) @@ fs
      [] how = "open_fails" -> fs
      [] how = "write_fails" -> (name :> <<>>) @@ fs

read_text(fs, name) == decode_newlines(fs[name])

touch(fs, name, ok) ==
    IF ok /\ name \notin DOMAIN fs THEN (name :> <<>>) @@ fs ELSE fs

(***************************************************************************)
(* The remote site.  A response is [kind, status, locked, body]: kind is   *)
(* "response" or "network_error" (timeout, DNS, reset); locked says the    *)
(* body holds the "before it unlocks" sentence.                            *)
(***************************************************************************)
\* int(day_str_unpadded)
RECURSIVE int(_)
int(s) ==
    IF s = <<>> THEN 0
    ELSE 10 * int(SubSeq(s, 1, Len(s) - 1))
         + (CHOOSE d \in 0..9 : Digit(d) = s[Len(s)])

problem_url(year, day_str_unpadded) ==
    <<AOC_BASE_URL, "/">> \o year \o <<"/day/">> \o str(int(day_str_unpadded))

input_url(year, day_str_unpadded) ==
    problem_url(year, day_str_unpadded) \o <<"/input">>

raises_only_server_errors(response) == response.status >= 500 /\ response.status < 600

\* Response.raise_for_status
raises_http_error(response) == response.status >= 400 /\ response.status < 600

INPUT_BODY == <<"1", "\n", "2", "\n">>

(***************************************************************************)
(* fetch_input.  env is what the network and the filesystem do:            *)
(* [response, write, touch].  The result is the files afterwards, the      *)
(* request sent (with the status it was answered with, 0 when no answer    *)
(* came, and whether the answer's body holds the "before it unlocks"       *)
(* text), the messages printed and the exit status (NotExited when the     *)
(* function returns).                                                      *)
(***************************************************************************)
credential_detail_only_401(response, verbose) ==
    IF response.status = 400 /\ response.locked
    THEN <<"Detail: might not be unlocked yet">>
    ELSE IF response.status = 401
    THEN <<"Detail: Check if your AOC_SESSION cookie is valid or has expired">>
    ELSE IF verbose THEN <<"Response content">>
    ELSE <<>>

http_error_detail(response, verbose) ==
    IF response.status = 400 /\ response.locked
    THEN <<"Detail: might not be unlocked yet">>
    ELSE IF response.status = 401 \/ response.status = 403
    THEN <<"Detail: Check if your AOC_SESSION cookie is valid or has expired">>
    ELSE IF verbose THEN <<"Response content">>
    ELSE <<>>

fetch_input(year, day_str_unpadded, cookie, fs, verbose, env) ==
    LET request == [url |-> input_url(year, day_str_unpadded), cookie |-> cookie,
                    status |-> env.response.status, locked |-> env.response.locked]
        pre == IF verbose THEN <<"Fetching puzzle input from">> ELSE <<>>
    IN
    IF env.response.kind = "network_error"
    THEN [files |-> fs, request |-> request, exit |-> 1,
          out |-> pre \o <<"Error: Failed to fetch puzzle input">>]
    ELSE IF raises_http_error(env.response)
    THEN [files |-> fs, request |-> request, exit |-> 1,
          out |-> pre \o <<"Error: HTTP fetching puzzle input">>
                  \o http_error_detail(env.response, verbose)]
    ELSE IF env.write # "ok"
    THEN [files |-> write_text(fs, "input.txt", env.response.body, env.write),
          request |-> request, exit |-> 1,
          out |-> pre \o <<"Error: Could not write input/example file">>]
    ELSE IF ~env.touch
    THEN [files |-> write_text(fs, "input.txt", env.response.body, "ok"),
          request |-> request, exit |-> 1,
          out |-> pre \o <<"Input saved", "Error: Could not write input/example file">>]
    ELSE [files |-> touch(write_text(fs, "input.txt", env.response.body, "ok"),
                          "example.txt", TRUE),
          request |-> request, exit |-> NotExited,
          out |-> pre \o <<"Input saved", "Empty example file created">>]

(***************************************************************************)
(* The problem page.  A page is the sequence of its                        *)
(* <article class="day-desc"> elements, each the sequence of its text      *)
(* nodes; html.parser hands the nodes' characters over as served.          *)
(***************************************************************************)
\* Tag.get_text(separator="\n", strip=True): the stripped non-empty nodes,
\* joined by the separator.
RECURSIVE get_text(_)
get_text(nodes) ==
    IF nodes = <<>> THEN <<>>
    ELSE LET first == strip(Head(nodes))
             rest == get_text(Tail(nodes))
         IN  IF first = <<>> THEN rest
             ELSE IF rest = <<>> THEN first
             ELSE first \o <<"\n">> \o rest

\* The number of leading whitespace atoms of s.
RECURSIVE space_run(_)
space_run(s) == IF s # <<>> /\ IsSpace(Head(s)) THEN 1 + space_run(Tail(s)) ELSE 0

\* re.sub(r"\n\s*\n", "\n\n", text): leftmost matches, \s* greedy.
RECURSIVE collapse_blank_lines(_)
collapse_blank_lines(text) ==
    IF text = <<>> THEN <<>>
    ELSE LET rest == Tail(text)
             w == space_run(rest)
             ends == {k \in 1..w : rest[k] = "\n"}
         IN  IF Head(text) = "\n" /\ ends # {}
             THEN LET k == CHOOSE e \in ends : \A f \in ends : f <= e
                  IN  <<"\n", "\n">> \o collapse_blank_lines(SubSeq(rest, k + 1, Len(rest)))
             ELSE <<Head(text)>> \o collapse_blank_lines(rest)

part_title(i) ==
    IF i = 0 THEN <<"--- Part One ---">>
    ELSE IF i = 1 THEN <<"--- Part Two ---">>
    ELSE <<"--- Part ">> \o str(i + 1) \o <<" ---">>

\* The loop over enumerate(problem_articles), from index i on.
RECURSIVE parts_text(_, _)
parts_text(articles, i) ==
    IF articles = <<>> THEN <<>>
    ELSE part_title(i) \o <<"\n">>
         \o strip(collapse_blank_lines(get_text(Head(articles)))) \o <<"\n", "\n">>
         \o parts_text(Tail(articles), i + 1)

full_problem_text(year, day_str_unpadded, articles) ==
    <<"Problem Statement for Advent of Code ">> \o year \o <<" Day ">>
    \o day_str_unpadded \o <<"\n">>
    \o <<"Source: ">> \o problem_url(year, day_str_unpadded) \o <<"\n">>
    \o <<"Input File URL: ">> \o input_url(year, day_str_unpadded) \o <<"\n", "\n">>
    \o parts_text(articles, 0)

(***************************************************************************)
(* fetch_and_save_instructions.  env is what the network and the           *)
(* filesystem do: [read, response, write, debug_write]; read is "ok",      *)
(* "oserror" or "decode_error" (the saved file is not UTF-8, which         *)
(* read_text raises as UnicodeDecodeError outside every try).  The result  *)
(* is the returned status (None when an exception leaves the function),    *)
(* the files afterwards, the requests sent and the messages printed.       *)
(***************************************************************************)
INSTRUCTIONS_FILE == "problem_statement.txt"
debug_html_in_statement_file == INSTRUCTIONS_FILE

\* In the source the name also carries the year and the day, which are fixed
\* within a run: problem_page_raw_{year}_{day}.html.
DEBUG_HTML_FILE == "problem_page_raw.html"

classify(old_content, new_content) ==
    IF old_content = None THEN "CREATED"
    ELSE IF old_content = new_content THEN "UNCHANGED"
    ELSE "UPDATED"

save_instructions(year, day_str_unpadded, fs, old_content, articles, request, pre, env) ==
    LET new_content == strip(full_problem_text(year, day_str_unpadded, articles))
        status == classify(old_content, new_content)
    IN
    IF env.write # "ok"
    THEN [status |-> "FAILED_WRITE", raised |-> FALSE, requests |-> <<request>>,
          files |-> write_text(fs, INSTRUCTIONS_FILE, new_content, env.write),
          out |-> pre \o <<"Error: Could not write problem statement file">>]
    ELSE [status |-> status, raised |-> FALSE, requests |-> <<request>>,
          files |-> write_text(fs, INSTRUCTIONS_FILE, new_content, "ok"),
          out |-> pre \o <<CASE status = "CREATED" -> "Problem statement newly saved"
                             [] status = "UNCHANGED" -> "Problem statement is already up-to-date"
                             [] OTHER -> "Problem statement updated">>]

fetch_and_save_instructions(year, day_str_unpadded, cookie, fs, verbose, env) ==
    LET request == [url |-> problem_url(year, day_str_unpadded), cookie |-> cookie,
                    status |-> env.response.status, locked |-> env.response.locked]
        existed == INSTRUCTIONS_FILE \in DOMAIN fs
        old_content == IF existed /\ env.read = "ok"
                       THEN read_text(fs, INSTRUCTIONS_FILE) ELSE None
        pre == (IF existed /\ env.read = "oserror"
                THEN <<"Warning: Could not read existing instructions file">> ELSE <<>>)
               \o (IF verbose THEN <<"Fetching problem statement from">> ELSE <<>>)
        more == IF verbose THEN <<"Response content">> ELSE <<>>
    IN
    IF existed /\ env.read = "decode_error"
    THEN [status |-> None, raised |-> TRUE, requests |-> <<>>, files |-> fs, out |-> <<>>]
    ELSE IF env.response.kind = "network_error"
    THEN [status |-> "FAILED_FETCH", raised |-> FALSE, requests |-> <<request>>,
          files |-> fs, out |-> pre \o <<"Error: Failed to fetch problem statement">>]
    ELSE IF raises_http_error(env.response)
    THEN [status |-> "FAILED_FETCH", raised |-> FALSE, requests |-> <<request>>,
          files |-> fs, out |-> pre \o <<"Error: HTTP fetching problem statement">> \o more]
    ELSE IF env.response.body = <<>>
    THEN IF verbose /\ env.debug_write # "ok"
         THEN [status |-> "FAILED_UNEXPECTED", raised |-> FALSE, requests |-> <<request>>,
               files |-> write_text(fs, DEBUG_HTML_FILE, <<"<html>">>, env.debug_write),
               out |-> pre \o <<"Warning: Could not find problem description articles",
                                "An unexpected error occurred while fetching/parsing instructions">>]
         ELSE [status |-> "NOT_FOUND", raised |-> FALSE, requests |-> <<request>>,
               files |-> IF verbose
                         THEN write_text(fs, DEBUG_HTML_FILE, <<"<html>">>, "ok") ELSE fs,
               out |-> pre \o <<"Warning: Could not find problem description articles">>
                       \o (IF verbose THEN <<"Raw HTML saved">> ELSE <<>>)]
    ELSE save_instructions(year, day_str_unpadded, fs, old_content, env.response.body,
                           request, pre, env)

(***************************************************************************)
(* The scaffolders.  Each takes the directories and files of the day       *)
(* directory and what the toolchain and the filesystem do, and gives the   *)
(* directories and files afterwards, the commands it ran (every            *)
(* subprocess.run call, found or not) and the messages printed.  A command *)
(* is "ok", "not_found" (FileNotFoundError), "failed" (CalledProcessError) *)
(* or "oserror" (another OSError, such as PermissionError).                *)
(***************************************************************************)
CommandOutcomes == {"ok", "not_found", "failed", "oserror"}

package_name(year, day_str_padded, lang) ==
    <<"aoc_">> \o year \o <<"_day_">> \o day_str_padded \o <<"_", lang>>

never_exists(ds, name) == FALSE

exists_with_rust_only(ds, name) == name = "rust" /\ name \in ds

\* rust_dir.exists(), go_dir.exists(), py_dir.exists()
already_exists(ds, name) == name \in ds

CARGO_TOML == <<"[package]", "\n", "name = \"rust\"", "\n", "edition = \"2021\"", "\n">>

\* content.replace('name = "rust"', new_name)
RECURSIVE replace_name(_, _)
replace_name(content, new_name) ==
    IF content = <<>> THEN <<>>
    ELSE (IF Head(content) = "name = \"rust\"" THEN new_name ELSE <<Head(content)>>)
         \o replace_name(Tail(content), new_name)

\* env: [cargo, partial, write]; partial: a failed cargo new left the directory behind.
scaffold_rust_project(ds, fs, year, day_str_padded, verbose, env) ==
    LET cmd == <<"cargo new">>
        pre == <<"Scaffolding Rust project">> \o (IF verbose THEN <<"Running: cargo new">> ELSE <<>>)
        made == fs @@ ("rust/Cargo.toml" :> CARGO_TOML)
        new_name == <<"name = \"">> \o package_name(year, day_str_padded, "rust") \o <<"\"">>
        new_content == replace_name(read_text(made, "rust/Cargo.toml"), new_name)
    IN
    IF already_exists(ds, "rust")
    THEN [dirs |-> ds, files |-> fs, commands |-> <<>>,
          out |-> <<"Rust project already exists, skipping">>]
    ELSE IF env.cargo = "not_found"
    THEN [dirs |-> ds, files |-> fs, commands |-> cmd,
          out |-> pre \o <<"Error: cargo command not found">>]
    ELSE IF env.cargo = "failed"
    THEN [dirs |-> IF env.partial THEN ds \cup {"rust"} ELSE ds, files |-> fs,
          commands |-> cmd, out |-> pre \o <<"Error: Rust scaffolding failed">>]
    ELSE IF env.cargo = "oserror"
    THEN [dirs |-> ds, files |-> fs, commands |-> cmd,
          out |-> pre \o <<"Error: Could not write/modify Rust project files">>]
    ELSE IF env.write # "ok"
    THEN [dirs |-> ds \cup {"rust"},
          files |-> write_text(made, "rust/Cargo.toml", new_content, env.write),
          commands |-> cmd,
          out |-> pre \o (IF verbose THEN <<"Updating Cargo.toml">> ELSE <<>>)
                  \o <<"Error: Could not write/modify Rust project files">>]
    ELSE [dirs |-> ds \cup {"rust"},
          files |-> write_text(made, "rust/Cargo.toml", new_content, "ok"),
          commands |-> cmd,
          out |-> pre \o (IF verbose THEN <<"Updating Cargo.toml">> ELSE <<>>)
                  \o <<"Rust project scaffolded">>]

MAIN_GO == <<"package main", "\n", "func main() {}", "\n">>
MAIN_PY == <<"def main():", "\n", "main()", "\n">>

\* env: [mkdir, go, write]
scaffold_go_project(ds, fs, year, day_str_padded, verbose, env) ==
    LET cmd == <<"go mod init">>
        pre == <<"Scaffolding Go project">>
        run == pre \o (IF verbose THEN <<"Running: go mod init">> ELSE <<>>)
        made == fs @@ ("go/go.mod" :> (<<"module ">> \o package_name(year, day_str_padded, "go")
                                       \o <<"\n">>))
        wr == IF verbose THEN <<"Writing main.go">> ELSE <<>>
    IN
    IF already_exists(ds, "go")
    THEN [dirs |-> ds, files |-> fs, commands |-> <<>>,
          out |-> <<"Go project already exists, skipping">>]
    ELSE IF ~env.mkdir
    THEN [dirs |-> ds, files |-> fs, commands |-> <<>>,
          out |-> pre \o <<"Error: Could not create Go project files">>]
    ELSE IF env.go = "not_found"
    THEN [dirs |-> ds \cup {"go"}, files |-> fs, commands |-> cmd,
          out |-> run \o <<"Error: go command not found">>]
    ELSE IF env.go = "failed"
    THEN [dirs |-> ds \cup {"go"}, files |-> fs, commands |-> cmd,
          out |-> run \o <<"Error: Go scaffolding failed">>]
    ELSE IF env.go = "oserror"
    THEN [dirs |-> ds \cup {"go"}, files |-> fs, commands |-> cmd,
          out |-> run \o <<"Error: Could not create Go project files">>]
    ELSE IF env.write # "ok"
    THEN [dirs |-> ds \cup {"go"}, files |-> write_text(made, "go/main.go", MAIN_GO, env.write),
          commands |-> cmd,
          out |-> run \o wr \o <<"Error: Could not create Go project files">>]
    ELSE [dirs |-> ds \cup {"go"}, files |-> write_text(made, "go/main.go", MAIN_GO, "ok"),
          commands |-> cmd, out |-> run \o wr \o <<"Go project scaffolded">>]

\* env: [mkdir, uv, venv, write]
scaffold_python_project(ds, fs, year, day_str_padded, verbose, env) ==
    LET pre == <<"Scaffolding Python project">>
        try_uv == IF verbose THEN <<"Attempting to create venv with uv">> ELSE <<>>
        uv_out == CASE env.uv = "ok" -> <<"Python venv created successfully with uv">>
                    [] env.uv = "not_found" ->
                           IF verbose THEN <<"uv command not found">> ELSE <<>>
                    [] env.uv = "failed" -> <<"Failed to create venv with uv">>
                    [] OTHER -> <<>>
        try_std == IF verbose THEN <<"Attempting to create venv with standard library">> ELSE <<>>
        std_out == CASE env.venv = "ok" ->
                            <<"Python venv created successfully with standard venv module">>
                     [] env.venv = "failed" ->
                            <<"Error: Python venv creation with standard library failed">>
                     [] env.venv = "not_found" -> <<"Error: sys.executable not found">>
                     [] OTHER -> <<>>
        fallback == env.uv # "ok"
        venv_created == env.uv = "ok" \/ env.venv = "ok"
        cmds == <<"uv venv">> \o (IF fallback THEN <<"python -m venv">> ELSE <<>>)
        log == pre \o try_uv \o uv_out
               \o (IF fallback THEN try_std \o std_out ELSE <<>>)
               \o (IF venv_created THEN <<>>
                   ELSE <<"Warning: Failed to create Python virtual environment">>)
               \o (IF verbose THEN <<"Writing main.py">> ELSE <<>>)
        ds2 == ds \cup {"python"} \cup (IF venv_created THEN {"python/.venv"} ELSE {})
        failed == <<"Error: Could not create Python project directory or files">>
    IN
    IF already_exists(ds, "python")
    THEN [dirs |-> ds, files |-> fs, commands |-> <<>>,
          out |-> <<"Python project already exists, skipping">>]
    ELSE IF ~env.mkdir
    THEN [dirs |-> ds, files |-> fs, commands |-> <<>>, out |-> pre \o failed]
    ELSE IF env.uv = "oserror"
    THEN [dirs |-> ds \cup {"python"}, files |-> fs, commands |-> <<"uv venv">>,
          out |-> pre \o try_uv \o failed]
    ELSE IF fallback /\ env.venv = "oserror"
    THEN [dirs |-> ds \cup {"python"}, files |-> fs, commands |-> cmds,
          out |-> pre \o try_uv \o uv_out \o try_std \o failed]
    ELSE IF env.write # "ok"
    THEN [dirs |-> ds2, files |-> write_text(fs, "python/main.py", MAIN_PY, env.write),
          commands |-> cmds, out |-> log \o failed]
    ELSE [dirs |-> ds2, files |-> write_text(fs, "python/main.py", MAIN_PY, "ok"),
          commands |-> cmds, out |-> log \o <<"Python project scaffolded">>]

\* LANGUAGE_SCAFFOLDERS[lang_name](...)
scaffolder_func(lang_name, ds, fs, year, day_str_padded, verbose, env) ==
    CASE lang_name = "rust" -> scaffold_rust_project(ds, fs, year, day_str_padded, verbose, env)
      [] lang_name = "go" -> scaffold_go_project(ds, fs, year, day_str_padded, verbose, env)
      [] lang_name = "python" ->
             scaffold_python_project(ds, fs, year, day_str_padded, verbose, env)

languages_in_fixed_order(selected_languages) ==
    SelectSeq(LANGUAGES, LAMBDA l : l \in Range(selected_languages)
                                    \/ "all" \in Range(selected_languages))

\* langs_to_scaffold of main_logic
RECURSIVE valid_languages(_)
valid_languages(selected) ==
    IF selected = <<>> THEN <<>>
    ELSE (IF Head(selected) \in Range(LANGUAGES) THEN <<Head(selected)>> ELSE <<>>)
         \o valid_languages(Tail(selected))

langs_to_scaffold(selected_languages) ==
    IF "all" \in Range(selected_languages) THEN LANGUAGES
    ELSE valid_languages(selected_languages)

(***************************************************************************)
(* How the process ends.  raised is what leaves main_logic: "return",      *)
(* "SystemExit" (with its code), "KeyboardInterrupt" or "Exception".       *)
(* python main.py runs main_logic inside the try of the __main__ block;    *)
(* the aoc-init console script of setup.py calls main:main_logic itself,   *)
(* as sys.exit(main_logic()), where nothing catches a KeyboardInterrupt:   *)
(* the interpreter prints the traceback and dies of SIGINT.                *)
(***************************************************************************)
script_entry(raised) ==
    CASE raised.kind = "return" -> [code |-> 0, out |-> <<>>]
      [] raised.kind = "SystemExit" -> [code |-> raised.code, out |-> <<>>]
      [] raised.kind = "KeyboardInterrupt" ->
             [code |-> 130, out |-> <<"Operation cancelled by user.">>]
      [] raised.kind = "Exception" ->
             [code |-> 1, out |-> <<"An unexpected error occurred">>]

console_entry(raised) ==
    CASE raised.kind = "return" -> [code |-> 0, out |-> <<>>]
      [] raised.kind = "SystemExit" -> [code |-> raised.code, out |-> <<>>]
      [] raised.kind = "KeyboardInterrupt" ->
             [code |-> KilledBySigint, out |-> <<"Traceback: KeyboardInterrupt">>]
      [] raised.kind = "Exception" -> [code |-> 1, out |-> <<"Traceback">>]

process_exit(how, raised) ==
    IF how = "script" THEN script_entry(raised) ELSE console_entry(raised)

Return == [kind |-> "return", code |-> 0]
SystemExit(n) == [kind |-> "SystemExit", code |-> n]
KeyboardInterrupt == [kind |-> "KeyboardInterrupt", code |-> 0]
Exception == [kind |-> "Exception", code |-> 0]

(***************************************************************************)
(* The inputs of a run: the command line, the config file, the site.       *)
(***************************************************************************)
CLI_SESSION == <<"c", "l", "i">>
Sessions == {None, <<>>, CLI_SESSION}

LanguageSelections ==
    { <<"all">>, <<"rust">>, <<"go">>, <<"python">>,
      <<"python", "rust">>, <<"go", "go">>, <<"go", "all">> }

\* Path.cwd() is absolute.  --base-dir defaults to it (line 573); the option
\* is kept as typed, and Path(".").parts is the empty tuple.
WorkingDirs ==
    { << <<"/">>, <<"home">>, <<"aoc">> >>,
      << <<"/">>, <<"aoc">>, <<"2", "0", "2", "4">> >> }
CurrentDir == <<>>
BaseDirs == WorkingDirs \cup {CurrentDir}

Namespaces ==
    [year : {2024}, day : {7}, session : Sessions, language : LanguageSelections,
     instructions : BOOLEAN, refresh_instructions : BOOLEAN, base_dir : BaseDirs,
     verbose : BOOLEAN]

NoDotenv == [exists |-> FALSE, oserror |-> FALSE, nread |-> 0, lines |-> <<>>]
DotenvFile(lines) == [exists |-> TRUE, oserror |-> FALSE, nread |-> 0, lines |-> lines]

DotenvFiles ==
    { NoDotenv,
      DotenvFile(<< <<"#", " ", "k">>,
                    AOC_SESSION \o <<"=", "\"", "e", "n", "v", "\"", "\n">> >>),
      DotenvFile(<< AOC_SESSION \o <<"=", "\n">> >>) }

Pages ==
    { <<>>,
      << << <<"a", "\r", "b">> >> >>,
      << << <<"a", "\n", "b">> >> >>,
      << << <<"a", "\n", " ", "\n", "\n", "b">>, <<" ">>, <<"c", " ">> >>, << <<"d">> >> >> }

Response(status, locked, body) ==
    [kind |-> "response", status |-> status, locked |-> locked, body |-> body]
NetworkError == [kind |-> "network_error", status |-> 0, locked |-> FALSE, body |-> <<>>]

InputResponses ==
    {Response(200, FALSE, INPUT_BODY), NetworkError}
    \cup {Response(st, l, <<>>) : st \in {400, 401, 403, 404, 500}, l \in BOOLEAN}

PageResponses ==
    {Response(200, FALSE, page) : page \in Pages}
    \cup {Response(404, FALSE, <<>>), Response(500, FALSE, <<>>), NetworkError}

InputEnvs == [response : InputResponses, write : WriteOutcomes, touch : BOOLEAN]

\* What the environment does in a call of fetch_and_save_instructions, each
\* operation the call does not reach left at its success value.
InstrEnvs(fs, verbose) ==
    { env \in [read : {"ok", "oserror", "decode_error"}, response : PageResponses,
               write : WriteOutcomes, debug_write : WriteOutcomes] :
        LET fetched == env.response.kind = "response" /\ ~raises_http_error(env.response)
            page == env.response.body
        IN  /\ env.read # "ok" => INSTRUCTIONS_FILE \in DOMAIN fs
            /\ env.response.status # 200 => env.read # "decode_error"
            /\ env.write # "ok" => fetched /\ page # <<>> /\ env.read # "decode_error"
            /\ env.debug_write # "ok" =>
                   fetched /\ page = <<>> /\ verbose /\ env.read # "decode_error" }

InstrFaults(env) ==
    (IF env.read # "ok" THEN 1 ELSE 0) + (IF env.response.status # 200 THEN 1 ELSE 0)
    + (IF env.write # "ok" THEN 1 ELSE 0) + (IF env.debug_write # "ok" THEN 1 ELSE 0)

RustEnvs ==
    { env \in [cargo : CommandOutcomes, partial : BOOLEAN, write : WriteOutcomes] :
        /\ env.partial => env.cargo = "failed"
        /\ env.write # "ok" => env.cargo = "ok" }

GoEnvs ==
    { env \in [mkdir : BOOLEAN, go : CommandOutcomes, write : WriteOutcomes] :
        /\ env.go # "ok" => env.mkdir
        /\ env.write # "ok" => env.mkdir /\ env.go = "ok" }

PythonEnvs ==
    { env \in [mkdir : BOOLEAN, uv : CommandOutcomes, venv : CommandOutcomes,
               write : WriteOutcomes] :
        /\ env.uv # "ok" => env.mkdir
        /\ env.venv # "ok" => env.mkdir /\ env.uv \in {"not_found", "failed"}
        /\ env.write # "ok" => env.mkdir /\ env.uv # "oserror" /\ env.venv # "oserror" }

ScaffoldEnvs(lang_name) ==
    CASE lang_name = "rust" -> RustEnvs
      [] lang_name = "go" -> GoEnvs
      [] lang_name = "python" -> PythonEnvs

\* uv missing or failing is the silent fallback to the venv module, not a failure.
ScaffoldFaults(lang_name, env) ==
    CASE lang_name = "rust" ->
             (IF env.cargo # "ok" THEN 1 ELSE 0) + (IF env.write # "ok" THEN 1 ELSE 0)
      [] lang_name = "go" ->
             (IF ~env.mkdir THEN 1 ELSE 0) + (IF env.go # "ok" THEN 1 ELSE 0)
             + (IF env.write # "ok" THEN 1 ELSE 0)
      [] lang_name = "python" ->
             (IF ~env.mkdir THEN 1 ELSE 0) + (IF env.uv = "oserror" THEN 1 ELSE 0)
             + (IF env.venv # "ok" THEN 1 ELSE 0) + (IF env.write # "ok" THEN 1 ELSE 0)

(***************************************************************************)
(* main_logic, one action per call it makes.                               *)
(***************************************************************************)
year_str == str(args.year)
day_str_unpadded == str(args.day)
day_str_padded == zfill(day_str_unpadded, 2)

Init ==
    /\ cwd \in WorkingDirs
    /\ entry \in {"script", "console"}
    /\ args \in Namespaces
    /\ args.base_dir \in {cwd, CurrentDir}
    /\ dotenv \in DotenvFiles
    /\ loaded_env = EmptyDict
    /\ pc = "load_dotenv"
    /\ session_cookie = None
    /\ day_project_dir = <<>>
    /\ dirs = {}
    /\ files = <<>>
    /\ http_log = <<>>
    /\ toolchain_log = <<>>
    /\ out = IF args.verbose THEN <<"Verbose mode enabled.">> ELSE <<>>
    /\ lang_idx = 1
    /\ instr_calls = <<>>
    /\ scaffold_calls = <<>>
    /\ faults = 0
    /\ interrupted = FALSE
    /\ exit_code = NotExited

\* The process ends: what main_logic raised goes through the entry point.
Exit(raised, printed) ==
    LET e == process_exit(entry, raised) IN
    /\ pc' = "exited"
    /\ exit_code' = e.code
    /\ out' = out \o printed \o e.out

\* The process goes on at position next.
Continue(next, printed) ==
    /\ pc' = next
    /\ out' = out \o printed
    /\ UNCHANGED exit_code

\* Lines 593-612: the credential from the command line or the config file.
LoadCredentials ==
    /\ pc = "load_dotenv"
    /\ LET env_vars_ == load_dotenv(dotenv)
           cookie == resolve_session(args.session, env_vars_)
           warned == IF dotenv.exists /\ dotenv.oserror
                     THEN <<"Warning: Could not read .env file">> ELSE <<>>
       IN  /\ loaded_env' = env_vars_
           /\ session_cookie' = cookie
           /\ IF Truthy(cookie)
              THEN Continue("create_day_folder",
                            warned \o (IF ~Truthy(args.session) /\ args.verbose
                                       THEN <<"Loaded AOC_SESSION from .env">> ELSE <<>>))
              ELSE Exit(SystemExit(1),
                        warned \o <<"Error: Advent of Code session cookie not found.">>)
    /\ UNCHANGED <<cwd, entry, args, dotenv, day_project_dir, dirs, files, http_log,
                   toolchain_log, lang_idx, instr_calls, scaffold_calls, faults,
                   interrupted>>

refresh_falls_through(refresh_instructions) == "fetch_input"

\* Line 626: where main_logic goes once the day directory exists.
after_day_folder(refresh_instructions) ==
    IF refresh_instructions THEN "refresh_instructions" ELSE "fetch_input"

\* Lines 614-624.
CreateDayFolder ==
    /\ pc = "create_day_folder"
    /\ \E mkdir_ok \in BOOLEAN :
         LET r == create_day_folder(year_str, day_str_padded, args.base_dir,
                                    args.verbose, mkdir_ok)
         IN  /\ day_project_dir' = IF r.made THEN r.path ELSE day_project_dir
             /\ dirs' = IF r.made THEN dirs \cup {"."} ELSE dirs
             /\ IF r.exit # NotExited THEN Exit(SystemExit(r.exit), r.out)
                ELSE Continue(after_day_folder(args.refresh_instructions), r.out)
    /\ UNCHANGED <<cwd, entry, loaded_env, args, dotenv, session_cookie, files, http_log,
                   toolchain_log, lang_idx, instr_calls, scaffold_calls, faults,
                   interrupted>>

\* One call of fetch_and_save_instructions on the day directory.
CallInstructions(verbose, env, r) ==
    /\ r = fetch_and_save_instructions(year_str, day_str_unpadded, session_cookie,
                                       files, verbose, env)
    /\ files' = r.files
    /\ http_log' = http_log \o r.requests
    /\ instr_calls' = Append(instr_calls,
                             [status |-> r.status, raised |-> r.raised,
                              answer |-> env.response.status, page |-> env.response.body,
                              faultless |-> InstrFaults(env) = 0,
                              existed |-> INSTRUCTIONS_FILE \in DOMAIN files,
                              before |-> dict_get(files, INSTRUCTIONS_FILE),
                              after |-> dict_get(r.files, INSTRUCTIONS_FILE)])

\* Lines 626-633: --refresh-instructions.
RefreshInstructions ==
    /\ pc = "refresh_instructions"
    /\ \E env \in InstrEnvs(files, args.verbose) :
         /\ faults + InstrFaults(env) <= MaxFaults
         /\ faults' = faults + InstrFaults(env)
         /\ \E r \in {fetch_and_save_instructions(year_str, day_str_unpadded,
                          session_cookie, files, args.verbose, env)} :
              /\ CallInstructions(args.verbose, env, r)
              /\ IF r.raised
                 THEN Exit(Exception, <<"Attempting to refresh instructions only">> \o r.out)
                 ELSE Exit(SystemExit(0),
                           <<"Attempting to refresh instructions only">> \o r.out
                           \o <<"Instructions refresh operation finished.">>)
    /\ UNCHANGED <<cwd, entry, loaded_env, args, dotenv, session_cookie, day_project_dir, dirs,
                   toolchain_log, lang_idx, scaffold_calls, interrupted>>

\* Lines 635-637.
FetchInput ==
    /\ pc = "fetch_input"
    /\ \E env \in InputEnvs :
         LET r == fetch_input(year_str, day_str_unpadded, session_cookie, files,
                              args.verbose, env)
         IN  /\ files' = r.files
             /\ http_log' = Append(http_log, r.request)
             /\ IF r.exit # NotExited THEN Exit(SystemExit(r.exit), r.out)
                ELSE IF args.instructions THEN Continue("fetch_instructions", r.out)
                ELSE Continue("scaffold", r.out)
    /\ UNCHANGED <<cwd, entry, loaded_env, args, dotenv, session_cookie, day_project_dir, dirs,
                   toolchain_log, lang_idx, instr_calls, scaffold_calls, faults,
                   interrupted>>

\* Lines 639-642: --instructions.
FetchInstructions ==
    /\ pc = "fetch_instructions"
    /\ \E env \in InstrEnvs(files, args.verbose) :
         /\ faults + InstrFaults(env) <= MaxFaults
         /\ faults' = faults + InstrFaults(env)
         /\ \E r \in {fetch_and_save_instructions(year_str, day_str_unpadded,
                          session_cookie, files, args.verbose, env)} :
              /\ CallInstructions(args.verbose, env, r)
              /\ IF r.raised THEN Exit(Exception, r.out) ELSE Continue("scaffold", r.out)
    /\ UNCHANGED <<cwd, entry, loaded_env, args, dotenv, session_cookie, day_project_dir, dirs,
                   toolchain_log, lang_idx, scaffold_calls, interrupted>>

\* One call of a scaffolder on the day directory.
CallScaffolder(lang_name, verbose, env) ==
    LET r == scaffolder_func(lang_name, dirs, files, year_str, day_str_padded, verbose, env)
    IN  /\ dirs' = r.dirs
        /\ files' = r.files
        /\ toolchain_log' = toolchain_log \o r.commands
        /\ out' = out \o r.out
        /\ scaffold_calls' = Append(scaffold_calls,
                                    [lang |-> lang_name, existed |-> lang_name \in dirs,
                                     commands |-> r.commands, out |-> r.out,
                                     changed |-> r.dirs # dirs \/ r.files # files])

\* Lines 657-663: one turn of the loop over langs_to_scaffold.
Scaffold(lang_name) ==
    /\ pc = "scaffold"
    /\ lang_idx <= Len(langs_to_scaffold(args.language))
    /\ langs_to_scaffold(args.language)[lang_idx] = lang_name
    /\ \E env \in ScaffoldEnvs(lang_name) :
         /\ faults + ScaffoldFaults(lang_name, env) <= MaxFaults
         /\ faults' = faults + ScaffoldFaults(lang_name, env)
         /\ CallScaffolder(lang_name, args.verbose, env)
    /\ lang_idx' = lang_idx + 1
    /\ UNCHANGED <<cwd, entry, loaded_env, args, dotenv, pc, session_cookie, day_project_dir,
                   http_log, instr_calls, interrupted, exit_code>>

ScaffoldRust == Scaffold("rust")
ScaffoldGo == Scaffold("go")
ScaffoldPython == Scaffold("python")

\* Line 669: the loop is over, main_logic returns.
SetupComplete ==
    /\ pc = "scaffold"
    /\ lang_idx > Len(langs_to_scaffold(args.language))
    /\ Exit(Return, <<"Setup complete.">>)
    /\ UNCHANGED <<cwd, entry, loaded_env, args, dotenv, session_cookie, day_project_dir, dirs,
                   files, http_log, toolchain_log, lang_idx, instr_calls, scaffold_calls,
                   faults, interrupted>>

\* The user interrupts the run: KeyboardInterrupt is raised where the run is.
Interrupt ==
    /\ pc # "exited"
    /\ interrupted' = TRUE
    /\ Exit(KeyboardInterrupt, <<>>)
    /\ UNCHANGED <<cwd, entry, loaded_env, args, dotenv, session_cookie, day_project_dir, dirs,
                   files, http_log, toolchain_log, lang_idx, instr_calls, scaffold_calls,
                   faults>>

Next ==
    \/ LoadCredentials
    \/ CreateDayFolder
    \/ RefreshInstructions
    \/ FetchInput
    \/ FetchInstructions
    \/ ScaffoldRust
    \/ ScaffoldGo
    \/ ScaffoldPython
    \/ SetupComplete
    \/ Interrupt

Spec == Init /\ [][Next]_vars

(***************************************************************************)
(* The claims about a run of main_logic (specification Spec).              *)
(***************************************************************************)
Supplied(credential) == credential # None /\ Len(credential) > 0
FileCredential == dict_get(load_dotenv(dotenv), AOC_SESSION)
Requested(url_end) == \E i \in 1..Len(http_log) : endswith(http_log[i].url, url_end)
Printed(message) == \E i \in 1..Len(out) : out[i] = message

\* C1: when the command line and the config file both hold a credential, every
\* request of the run carries the command-line one; a request carries the file's
\* value only when the command line supplied none.
C1_CommandLineCredentialWins ==
    \A i \in 1..Len(http_log) :
        /\ Supplied(args.session) => http_log[i].cookie = args.session
        /\ ~Supplied(args.session) => http_log[i].cookie = FileCredential

C1_Witness ==
    /\ Supplied(args.session) /\ Supplied(FileCredential)
    /\ args.session # FileCredential
    /\ Len(http_log) = 2

\* C2: with no credential on the command line and none in the config file the
\* run ends with exit code 1 before any side effect: no directory, no request,
\* no scaffolder, no command, no file.
C2_NoCredentialFailsFast ==
    (~Supplied(args.session) /\ ~Supplied(FileCredential)) =>
        /\ pc \in {"load_dotenv", "exited"}
        /\ (pc = "exited" /\ ~interrupted) => exit_code = 1
        /\ dirs = {} /\ files = <<>> /\ day_project_dir = <<>>
        /\ http_log = <<>> /\ toolchain_log = <<>>
        /\ scaffold_calls = <<>> /\ instr_calls = <<>>

C2_Witness ==
    /\ ~Supplied(args.session) /\ ~Supplied(FileCredential)
    /\ dotenv.exists
    /\ pc = "exited" /\ exit_code = 1
    /\ Printed("Error: Advent of Code session cookie not found.")

InputFetchFailed ==
    \/ \E i \in 1..Len(http_log) :
           endswith(http_log[i].url, "/input") /\ http_log[i].status # 200
    \/ Printed("Error: Could not write input/example file")

InputFetchSucceeded ==
    /\ Requested("/input")
    /\ Printed("Empty example file created")
    /\ {"input.txt", "example.txt"} \subseteq DOMAIN files

\* C3: a failed input fetch (HTTP error status, network error, error writing
\* input.txt or example.txt) ends the run with exit code 1, with no
\* problem-statement fetch and no scaffolder after it; scaffolders run only in
\* runs whose input fetch succeeded.
C3_InputFetchFailureIsFatal ==
    /\ InputFetchFailed =>
           /\ pc = "exited" /\ exit_code = 1
           /\ instr_calls = <<>> /\ scaffold_calls = <<>> /\ toolchain_log = <<>>
           /\ Len(http_log) = 1
    /\ scaffold_calls # <<>> => InputFetchSucceeded /\ ~InputFetchFailed

C3_Witness ==
    /\ InputFetchFailed
    /\ args.instructions /\ args.language = <<"all">>
    /\ "input.txt" \in DOMAIN files
    /\ exit_code = 1

Rank(lang_name) == CHOOSE i \in 1..Len(LANGUAGES) : LANGUAGES[i] = lang_name
CalledLanguages == [i \in 1..Len(scaffold_calls) |-> scaffold_calls[i].lang]
Failed(call) == \E i \in 1..Len(call.out) :
                    call.out[i] \in {"Error: cargo command not found",
                                     "Error: Rust scaffolding failed",
                                     "Error: Could not write/modify Rust project files",
                                     "Error: go command not found",
                                     "Error: Go scaffolding failed",
                                     "Error: Could not create Go project files",
                                     "Error: Could not create Python project directory or files"}
SomeScaffolderFailed == \E i \in 1..Len(scaffold_calls) : Failed(scaffold_calls[i])
RanToEnd == pc = "exited" /\ ~interrupted
SelectedLanguages ==
    IF "all" \in Range(args.language) THEN {"rust", "go", "python"} ELSE Range(args.language)

\* C8 as stated: after a scaffolder failure every selected ecosystem is still
\* attempted, in the order rust, go, python, and the run exits with code 0.
C8_Original_RustGoPythonOrder ==
    (RanToEnd /\ SomeScaffolderFailed) =>
        /\ exit_code = 0
        /\ Range(CalledLanguages) = SelectedLanguages
        /\ \A i, j \in 1..Len(scaffold_calls) :
               i < j => Rank(scaffold_calls[i].lang) <= Rank(scaffold_calls[j].lang)

\* C8 as amended: after a scaffolder failure every selected ecosystem is still
\* attempted, in the order the selection names them (rust, go, python when "all"
\* is among the selection), and the run exits with code 0.
C8_FailureIsNotFatal_SelectionOrder ==
    (RanToEnd /\ SomeScaffolderFailed) =>
        /\ exit_code = 0
        /\ Printed("Setup complete.")
        /\ CalledLanguages = IF "all" \in Range(args.language)
                             THEN <<"rust", "go", "python">> ELSE args.language

C8_Witness ==
    /\ RanToEnd /\ exit_code = 0
    /\ Len(scaffold_calls) = 3
    /\ Failed(scaffold_calls[1])
    /\ ~Failed(scaffold_calls[3]) /\ scaffold_calls[3].changed

\* C9: a user interrupt at any point of a run, however the tool was started, is
\* caught at the top level and the process exits with code 130; a run that
\* completes exits 0 and a fatal error exits 1.
C9_InterruptExits130 ==
    pc = "exited" =>
        /\ interrupted => exit_code = 130 /\ Printed("Operation cancelled by user.")
        /\ ~interrupted => exit_code \in {0, 1}

\* C10: with --refresh-instructions the run prepares the directory and fetches
\* the problem statement once: no request to the /input URL, no input.txt or
\* example.txt, no scaffolder, whatever --instructions and --language say.
C10_RefreshOnly ==
    args.refresh_instructions =>
        /\ ~Requested("/input")
        /\ "input.txt" \notin DOMAIN files /\ "example.txt" \notin DOMAIN files
        /\ scaffold_calls = <<>> /\ toolchain_log = <<>>
        /\ Len(instr_calls) <= 1 /\ Len(http_log) <= 1
        /\ (RanToEnd /\ exit_code = 0) => Len(instr_calls) = 1 /\ Len(http_log) = 1

C10_Witness ==
    /\ args.refresh_instructions /\ args.instructions /\ args.language = <<"all">>
    /\ RanToEnd /\ exit_code = 0
    /\ Len(http_log) = 1 /\ INSTRUCTIONS_FILE \in DOMAIN files

\* How often part occurs among the parts of path.
RECURSIVE Occurrences(_, _)
Occurrences(part, path) ==
    IF path = <<>> THEN 0
    ELSE (IF Head(path) = part THEN 1 ELSE 0) + Occurrences(part, Tail(path))

DayFolderMade == pc \notin {"load_dotenv", "create_day_folder"} /\ day_project_dir # <<>>

\* C11: once create_day_folder has returned, the day directory is the base
\* path followed by the padded day alone when the year is a segment of the
\* working directory, and base/year/day otherwise; and the year occurs in it
\* as often as in the base path, or once more.
C11_YearSegmentNotDuplicated ==
    DayFolderMade =>
        /\ day_project_dir =
               IF year_str \in Range(cwd)
               THEN args.base_dir \o <<day_str_padded>>
               ELSE args.base_dir \o <<year_str, day_str_padded>>
        /\ Occurrences(year_str, day_project_dir) - Occurrences(year_str, args.base_dir)
               \in {0, 1}

InputAnswered(statuses, locked) ==
    \E i \in 1..Len(http_log) :
        /\ endswith(http_log[i].url, "/input")
        /\ http_log[i].status \in statuses
        /\ http_log[i].locked \in locked

CredentialDiagnostic == Printed("Detail: Check if your AOC_SESSION cookie is valid or has expired")
NotUnlockedDiagnostic == Printed("Detail: might not be unlocked yet")

\* C12: an input fetch answered 401 or 403 ends the run with status 1 and
\* the diagnostic about the validity of the session cookie; one answered 400
\* with the "before it unlocks" body ends it with the other diagnostic, about
\* the puzzle not being unlocked; each diagnostic is printed for those answers
\* only, and no run prints both.
C12_CredentialDiagnostic ==
    /\ InputAnswered({401, 403}, BOOLEAN) =>
           pc = "exited" /\ exit_code = 1 /\ CredentialDiagnostic
    /\ InputAnswered({400}, {TRUE}) =>
           pc = "exited" /\ exit_code = 1 /\ NotUnlockedDiagnostic
    /\ CredentialDiagnostic => InputAnswered({401, 403}, BOOLEAN)
    /\ NotUnlockedDiagnostic => InputAnswered({400}, {TRUE})
    /\ ~(CredentialDiagnostic /\ NotUnlockedDiagnostic)

\* A 403 whose body also holds the "before it unlocks" text.
C12_Witness ==
    /\ InputAnswered({403}, {TRUE})
    /\ CredentialDiagnostic
    /\ entry = "console" /\ exit_code = 1

(***************************************************************************)
(* Specification SpecInstr: fetch_and_save_instructions called up to       *)
(* MaxCalls times in a row on one day directory, for one year and day,     *)
(* while the site serves any page and the filesystem does anything.        *)
(***************************************************************************)
CallerNamespaces ==
    [year : {2024}, day : {7}, session : {CLI_SESSION}, language : {<<"all">>},
     instructions : {TRUE}, refresh_instructions : {FALSE},
     base_dir : {<< <<"/">>, <<"home">>, <<"aoc">> >>}, verbose : BOOLEAN]

InitCaller(position, subdirs) ==
    /\ entry = "script"
    /\ args \in CallerNamespaces
    /\ cwd = args.base_dir
    /\ dotenv = NoDotenv
    /\ loaded_env = EmptyDict
    /\ pc = position
    /\ session_cookie = args.session
    /\ day_project_dir = target_dir(year_str, day_str_padded, args.base_dir)
    /\ dirs \in {{"."} \cup ds : ds \in subdirs}
    /\ files = <<>>
    /\ http_log = <<>>
    /\ toolchain_log = <<>>
    /\ out = <<>>
    /\ lang_idx = 1
    /\ instr_calls = <<>>
    /\ scaffold_calls = <<>>
    /\ faults = 0
    /\ interrupted = FALSE
    /\ exit_code = NotExited

InitInstr == InitCaller("fetch_and_save_instructions", {{}})

InstrCall ==
    /\ pc = "fetch_and_save_instructions"
    /\ Len(instr_calls) < MaxCalls
    /\ \E env \in InstrEnvs(files, args.verbose) :
         \E r \in {fetch_and_save_instructions(year_str, day_str_unpadded,
                       session_cookie, files, args.verbose, env)} :
              /\ CallInstructions(args.verbose, env, r)
              /\ out' = out \o r.out
    /\ UNCHANGED <<cwd, entry, loaded_env, args, dotenv, pc, session_cookie, day_project_dir, dirs,
                   toolchain_log, lang_idx, scaffold_calls, faults, interrupted,
                   exit_code>>

NextInstr == InstrCall

SpecInstr == InitInstr /\ [][NextInstr]_vars

(***************************************************************************)
(* Specification SpecScaffold: the scaffolders called up to MaxCalls times *)
(* on one day directory, in any order, while the toolchains and the        *)
(* filesystem do anything.  The day directory starts with any of the       *)
(* ecosystems' subdirectories in it, made by hand or by an earlier run.    *)
(***************************************************************************)
InitScaffold == InitCaller("scaffolders", SUBSET {"rust", "go", "python"})

ScaffolderCall(lang_name) ==
    /\ pc = "scaffolders"
    /\ Len(scaffold_calls) < MaxCalls
    /\ \E env \in ScaffoldEnvs(lang_name) : CallScaffolder(lang_name, args.verbose, env)
    /\ UNCHANGED <<cwd, entry, loaded_env, args, dotenv, pc, session_cookie, day_project_dir, http_log,
                   lang_idx, instr_calls, faults, interrupted, exit_code>>

RustCall == ScaffolderCall("rust")
GoCall == ScaffolderCall("go")
PythonCall == ScaffolderCall("python")

NextScaffold == RustCall \/ GoCall \/ PythonCall

SpecScaffold == InitScaffold /\ [][NextScaffold]_vars

(***************************************************************************)
(* The claims about fetch_and_save_instructions (specification SpecInstr). *)
(***************************************************************************)
Written(call) == call.status \in {"CREATED", "UPDATED", "UNCHANGED"}

\* Calls i and i + 1 both fetched the same page with articles, and neither met
\* a network or filesystem failure.
SameContentTwice(i) ==
    /\ i + 1 <= Len(instr_calls)
    /\ instr_calls[i].page = instr_calls[i + 1].page
    /\ instr_calls[i].page # <<>>
    /\ instr_calls[i].faultless /\ instr_calls[i + 1].faultless

\* C4: two calls in a row that fetch the same content: the second reports
\* UNCHANGED and leaves the bytes of problem_statement.txt as the first left them.
C4_SecondFetchUnchanged ==
    \A i \in 1..Len(instr_calls) :
        SameContentTwice(i) =>
            /\ instr_calls[i + 1].status = "UNCHANGED"
            /\ instr_calls[i + 1].after = instr_calls[i].after

\* C5: a call that succeeds reports CREATED when no problem_statement.txt existed
\* before it and UPDATED when the content it fetched differs from the file saved
\* before; after either the file holds the newly built text.
C5_CreatedThenUpdated ==
    \A i \in 1..Len(instr_calls) :
        LET call == instr_calls[i] IN
        (call.faultless /\ call.page # <<>>) =>
            /\ Written(call)
            /\ ~call.existed => call.status = "CREATED"
            /\ (call.existed /\ call.before # call.after) => call.status = "UPDATED"
            /\ call.status \in {"CREATED", "UPDATED"} =>
                   call.after = strip(full_problem_text(year_str, day_str_unpadded, call.page))

\* C6: whatever the request, the parse and the file operations do, the call
\* returns to its caller, with one of the six documented statuses.
C6_SixStatuses ==
    \A i \in 1..Len(instr_calls) :
        /\ ~instr_calls[i].raised
        /\ instr_calls[i].status \in {"CREATED", "UPDATED", "UNCHANGED", "NOT_FOUND",
                                      "FAILED_FETCH", "FAILED_WRITE"}

\* C15: a call that returns NOT_FOUND or FAILED_FETCH leaves
\* problem_statement.txt as it was, bytes and existence; the file differs
\* after a call only if the page was fetched and held at least one article.
C15_FailedFetchLeavesStatement ==
    \A i \in 1..Len(instr_calls) :
        LET call == instr_calls[i] IN
        /\ (~call.raised /\ call.status \in {"NOT_FOUND", "FAILED_FETCH"}) =>
               call.after = call.before
        /\ call.after # call.before => call.answer = 200 /\ call.page # <<>>

\* A saved statement has gone through a NOT_FOUND call that wrote the debug
\* page and through a FAILED_FETCH call.
C15_Witness ==
    /\ \E i \in 1..Len(instr_calls) :
           /\ ~instr_calls[i].raised /\ instr_calls[i].status = "NOT_FOUND"
           /\ instr_calls[i].existed /\ instr_calls[i].before # <<>>
    /\ \E i \in 1..Len(instr_calls) :
           /\ ~instr_calls[i].raised /\ instr_calls[i].status = "FAILED_FETCH"
           /\ instr_calls[i].existed /\ instr_calls[i].before # <<>>
    /\ DEBUG_HTML_FILE \in DOMAIN files

(***************************************************************************)
(* The claims about the scaffolders (specification SpecScaffold).          *)
(***************************************************************************)
SkipMessage(lang_name) ==
    CASE lang_name = "rust" -> "Rust project already exists, skipping"
      [] lang_name = "go" -> "Go project already exists, skipping"
      [] lang_name = "python" -> "Python project already exists, skipping"

\* C7: a scaffolder called when its ecosystem's subdirectory exists runs no
\* command, creates or changes no file or directory, and reports a skip.
C7_ExistingDirectoryIsSkipped ==
    \A i \in 1..Len(scaffold_calls) :
        LET call == scaffold_calls[i] IN
        call.existed =>
            /\ call.commands = <<>>
            /\ ~call.changed
            /\ call.out = <<SkipMessage(call.lang)>>

\* Each of the three scaffolders has been called on its existing directory.
C7_Witness ==
    \A lang_name \in Range(LANGUAGES) :
        \E i \in 1..Len(scaffold_calls) :
            scaffold_calls[i].lang = lang_name /\ scaffold_calls[i].existed

ToolchainFailed(call) ==
    /\ call.lang = "go" /\ ~call.existed
    /\ \E k \in 1..Len(call.out) :
           call.out[k] \in {"Error: go command not found", "Error: Go scaffolding failed"}

\* The python directory was made and an OSError came after that.
MainPyFailed(call) ==
    /\ call.lang = "python" /\ ~call.existed /\ call.changed
    /\ \E k \in 1..Len(call.out) :
           call.out[k] = "Error: Could not create Python project directory or files"

MainFile(lang_name) == IF lang_name = "go" THEN "go/main.go" ELSE "python/main.py"

\* C14: after a Go scaffold whose go command was missing or exited non-zero
\* the go directory is there without main.go, and every later Go call is a
\* skip that runs no command and writes nothing; likewise the python
\* directory stays after a python scaffold that failed once the directory
\* was made, main.py is absent or empty, and every later python call skips.
C14_FailedScaffoldIsNeverRetried ==
    \A i \in 1..Len(scaffold_calls) :
        LET call == scaffold_calls[i] IN
        ToolchainFailed(call) \/ MainPyFailed(call) =>
            /\ call.lang \in dirs
            /\ call.lang = "go" => MainFile("go") \notin DOMAIN files
            /\ MainFile(call.lang) \in DOMAIN files => files[MainFile(call.lang)] = <<>>
            /\ \A j \in (i + 1)..Len(scaffold_calls) :
                   scaffold_calls[j].lang = call.lang =>
                       /\ scaffold_calls[j].existed
                       /\ scaffold_calls[j].commands = <<>>
                       /\ ~scaffold_calls[j].changed
                       /\ scaffold_calls[j].out = <<SkipMessage(call.lang)>>

\* A Go scaffold failed at the toolchain and a later one skipped, and a python
\* scaffold failed at main.py.
C14_Witness ==
    /\ \E i, j \in 1..Len(scaffold_calls) :
           i < j /\ ToolchainFailed(scaffold_calls[i]) /\ scaffold_calls[j].lang = "go"
    /\ \E i \in 1..Len(scaffold_calls) :
           /\ MainPyFailed(scaffold_calls[i])
           /\ "python/main.py" \in DOMAIN files

(***************************************************************************)
(* Specification SpecDotenv: main_logic started without --session on any   *)
(* config file of one or two lines, the first any text of up to            *)
(* MaxLineLen characters over DotenvAlphabet, alone or as the value of     *)
(* AOC_SESSION.                                                            *)
(***************************************************************************)
MaxLineLen == 4

DotenvAlphabet == {"k", "=", "'", "\"", "#", " "}

RECURSIVE TextsUpTo(_)
TextsUpTo(n) ==
    IF n = 0 THEN {<<>>}
    ELSE LET shorter == TextsUpTo(n - 1)
         IN  shorter \cup {Append(t, c) : t \in shorter, c \in DotenvAlphabet}

FirstLines ==
    TextsUpTo(MaxLineLen) \cup {AOC_SESSION \o <<"=">> \o t : t \in TextsUpTo(MaxLineLen)}

\* Second lines: the key k again with a quoted empty value, AOC_SESSION
\* again, and a line without "=".
LaterLines == { <<"k", "=", "'", "'">>, AOC_SESSION \o <<"=", "k">>, <<"k">> }

DotenvInputs ==
    {DotenvFile(<<l>>) : l \in FirstLines}
    \cup {DotenvFile(<<l, m>>) : l \in FirstLines, m \in LaterLines}

InitDotenv ==
    /\ entry = "script"
    /\ args \in {[a EXCEPT !.session = None] : a \in CallerNamespaces}
    /\ cwd = args.base_dir
    /\ dotenv \in DotenvInputs
    /\ loaded_env = EmptyDict
    /\ pc = "load_dotenv"
    /\ session_cookie = None
    /\ day_project_dir = <<>>
    /\ dirs = {}
    /\ files = <<>>
    /\ http_log = <<>>
    /\ toolchain_log = <<>>
    /\ out = IF args.verbose THEN <<"Verbose mode enabled.">> ELSE <<>>
    /\ lang_idx = 1
    /\ instr_calls = <<>>
    /\ scaffold_calls = <<>>
    /\ faults = 0
    /\ interrupted = FALSE
    /\ exit_code = NotExited

NextDotenv == LoadCredentials

SpecDotenv == InitDotenv /\ [][NextDotenv]_vars

\* The reference parser of a config file, line by line.
Trimmed(s) ==
    LET kept == {i \in 1..Len(s) : s[i] \notin {" ", "\t", "\n", "\r"}} IN
    IF kept = {} THEN <<>>
    ELSE SubSeq(s, CHOOSE i \in kept : \A j \in kept : i <= j,
                   CHOOSE i \in kept : \A j \in kept : j <= i)

Contributes(line) ==
    LET t == Trimmed(line) IN
    t # <<>> /\ t[1] # "#" /\ \E i \in 1..Len(t) : t[i] = "="

FirstEquals(t) == CHOOSE i \in 1..Len(t) : t[i] = "=" /\ \A j \in 1..(i - 1) : t[j] # "="

QuotePairRemoved(v) ==
    IF Len(v) >= 2 /\ v[1] = v[Len(v)] /\ v[1] \in {"'", "\""}
    THEN SubSeq(v, 2, Len(v) - 1)
    ELSE v

ReferenceKey(line) ==
    LET t == Trimmed(line) IN Trimmed(SubSeq(t, 1, FirstEquals(t) - 1))

ReferenceValue(line) ==
    LET t == Trimmed(line) IN QuotePairRemoved(Trimmed(SubSeq(t, FirstEquals(t) + 1, Len(t))))

ReferenceParser(lines) ==
    LET contributing == {i \in 1..Len(lines) : Contributes(lines[i])}
        last(k) == CHOOSE i \in contributing :
                       /\ ReferenceKey(lines[i]) = k
                       /\ \A j \in contributing : ReferenceKey(lines[j]) = k => j <= i
    IN  [k \in {ReferenceKey(lines[i]) : i \in contributing} |-> ReferenceValue(lines[last(k)])]

\* C13: the mapping load_dotenv returns for a readable file is the reference
\* parser's: blank lines, # lines and lines without = contribute nothing,
\* every other line maps its trimmed key to its trimmed value without one
\* pair of matching surrounding quotes, and the last line of a key wins.
C13_LoadDotenvMatchesReference ==
    pc # "load_dotenv" /\ dotenv.exists /\ ~dotenv.oserror =>
        loaded_env = ReferenceParser(dotenv.lines)

====
